---- MODULE Spec2Model ----
(***************************************************************************)
(* Model of src/Investor_Risk_assement.py: one evaluation of the investor  *)
(* questionnaire (one run of main() under the __main__ guard).             *)
(*                                                                         *)
(* A DataFrame is a record [columns, rows]: the set of column names and    *)
(* the sequence of rows, each row a function from column name to cell.     *)
(* Text cells that the program lowercases or strips are sequences of       *)
(* one-character strings, so that lower(), strip() and capitalize() are    *)
(* computed; column names and display texts are TLA+ strings.              *)
(* The three CSV files are the environment: their content is chosen when   *)
(* load_csv reads them.  A file may be absent, unreadable, hold no rows or *)
(* lack columns; the cells of a column that is there are of the column's   *)
(* kind (Time_horizon_score whole numbers, matrix cells and type_name      *)
(* text), except where the program itself converts a cell: a Points cell   *)
(* may be no number (int(), line 152) and a weight cell may be a fraction, *)
(* negative, text or missing (pd.to_numeric, line 256).                    *)
(***************************************************************************)
EXTENDS Integers, Sequences, FiniteSets, TLC

VARIABLES
    pc,                    \* position of the script: "main" (before line 299), "th_done",
                           \* "rt_return" (render_risk_tolerance returning), "rt_bound",
                           \* "returned" (main returned), "stopped" (st.stop()),
                           \* "raised" (an exception in flight), "handled" (line 319)
    time_horizon_score,    \* main's local, line 299
    risk_tolerance_score,  \* main's local, line 311
    rt,                    \* frame of render_risk_tolerance (its locals and return value)
    sp,                    \* frame of show_portfolio: its locals, the heading it shows, and
                           \* grouped of bar_chart_display
    ui,                    \* the st.* elements emitted so far, in order
    loaded                 \* the paths load_csv has been called with

vars == <<pc, time_horizon_score, risk_tolerance_score, rt, sp, ui, loaded>>

(***************************************************************************)
(* Bounds of the environment.                                              *)
(***************************************************************************)
MaxPlanRows == 2
MaxMatrixRows == 1

(***************************************************************************)
(* Text helpers.                                                           *)
(***************************************************************************)
Digit(d) ==
    CASE d = 0 -> "0" [] d = 1 -> "1" [] d = 2 -> "2" [] d = 3 -> "3" [] d = 4 -> "4"
      [] d = 5 -> "5" [] d = 6 -> "6" [] d = 7 -> "7" [] d = 8 -> "8" [] d = 9 -> "9"

RECURSIVE Str(_)
\* str(int): the decimal string of an integer
Str(n) ==
    IF n < 0 THEN "-" \o Str(-n)
    ELSE IF n < 10 THEN Digit(n)
    ELSE Str(n \div 10) \o Digit(n % 10)

LowerChar(c) == CASE c = "G" -> "g" [] c = "I" -> "i" [] OTHER -> c
UpperChar(c) == CASE c = "g" -> "G" [] c = "i" -> "I" [] OTHER -> c

\* str.lower()
Lower(s) == [k \in 1..Len(s) |-> LowerChar(s[k])]

RECURSIVE LStrip(_)
LStrip(s) == IF s # <<>> /\ Head(s) = " " THEN LStrip(Tail(s)) ELSE s

RECURSIVE RStrip(_)
RStrip(s) == IF s # <<>> /\ s[Len(s)] = " " THEN RStrip(SubSeq(s, 1, Len(s) - 1)) ELSE s

\* str.strip()
Strip(s) == RStrip(LStrip(s))

\* str.capitalize(): first character upper-cased, the rest lower-cased
Capitalize(s) == [k \in 1..Len(s) |-> IF k = 1 THEN UpperChar(s[k]) ELSE LowerChar(s[k])]

(***************************************************************************)
(* DataFrames and load_csv.                                                *)
(***************************************************************************)
EmptyFrame == [columns |-> {}, rows |-> <<>>]

\* DataFrame.empty: no rows or no columns
IsEmpty(df) == df.columns = {} \/ df.rows = <<>>

AbsentFile == [status |-> "absent", df |-> EmptyFrame]
UnreadableFile == [status |-> "unreadable", df |-> EmptyFrame]
OkFile(columns, rows) == [status |-> "ok", df |-> [columns |-> columns, rows |-> rows]]

Msg(kind, text) == [kind |-> kind, text |-> text]

QUESTION_7_CSV == "question_7.csv"
RISK_MATRIX_CSV == "Risk_profile_matrix.csv"
PORTFOLIO_TYPE_CSV == "Portfolio_type.csv"

\* load_csv(path): the frame read, and the st.error it shows when the file is
\* absent or cannot be parsed
load_csv(path, file) ==
    IF file.status = "absent"
    THEN [df |-> EmptyFrame, msgs |-> <<Msg("error", "Required data file not found: " \o path)>>]
    ELSE IF file.status = "unreadable"
    THEN [df |-> EmptyFrame, msgs |-> <<Msg("error", "Could not read " \o path)>>]
    ELSE [df |-> file.df, msgs |-> <<>>]

(***************************************************************************)
(* Questions 1-6: label -> points.                                         *)
(***************************************************************************)
q1 == ("Less than 3 years" :> 1) @@ ("3-5 years" :> 3) @@ ("6-10 years" :> 7)
      @@ ("11 years or more" :> 10)
q2 == ("Less than 2 years" :> 0) @@ ("2-5 years" :> 1) @@ ("6-10 years" :> 4)
      @@ ("11 years or more" :> 8)
q3 == ("None" :> 1) @@ ("Limited" :> 3) @@ ("Good" :> 7) @@ ("Extensive" :> 10)
q4 == ("Take lower than average risks" :> 0) @@ ("Take average risks" :> 4)
      @@ ("Take above average risks" :> 8)
q5 == ("Bonds and/or bond funds" :> 3) @@ ("Stocks and/or stock funds" :> 6)
      @@ ("International securities and/or international funds" :> 8)
q6 == ("Sell all of my shares" :> 0) @@ ("Sell some of my shares" :> 2)
      @@ ("Do nothing" :> 5) @@ ("Buy more shares" :> 8)

\* score_from_radio: options_to_points.get(choice, 0)
score_from_radio(options_to_points, choice) ==
    IF choice \in DOMAIN options_to_points THEN options_to_points[choice] ELSE 0

RiskCap == 40
ShortHorizonLimit == 3

\* min(risk_tolerance_score, 40)
CapScoreUncapped(s) == s
CapScore(s) == IF s < RiskCap THEN s ELSE RiskCap

\* main: if time_horizon_score < 3
IsShortHorizonOffByOne(s) == s < ShortHorizonLimit - 1
IsShortHorizon(s) == s < ShortHorizonLimit

(***************************************************************************)
(* Question 7: the plan table.                                             *)
(***************************************************************************)
TextCell(t) == [kind |-> "text", val |-> 0, text |-> t]
IntCell(n) == [kind |-> "int", val |-> n, text |-> ""]
NaNCell == [kind |-> "nan", val |-> 0, text |-> ""]

\* pandas ==: NaN equals nothing, itself included
CellEq(a, b) == a.kind # "nan" /\ b.kind # "nan" /\ a = b

PlanLabel(k) == "Plan " \o Str(k)
PlanPointsCells == {IntCell(2), IntCell(11), TextCell("n/a")}

PlanRow(plan, points) == ("Plan" :> plan) @@ ("Range" :> TextCell("-5% to 12%")) @@ ("Points" :> points)
PlanColumns == {"Plan", "Range", "Points"}

\* tables of up to MaxPlanRows distinct plans with every points cell
PlanRowSeqs ==
    UNION {[1..n -> PlanPointsCells] : n \in 0..MaxPlanRows}

Restrict(f, S) == [x \in S |-> f[x]]

PlanFiles ==
    {AbsentFile}
    \cup {OkFile(PlanColumns, [k \in 1..Len(ps) |-> PlanRow(TextCell(PlanLabel(k)), ps[k])]) : ps \in PlanRowSeqs}
    \cup {OkFile(PlanColumns, <<PlanRow(NaNCell, IntCell(11))>>)}
    \cup {OkFile(PlanColumns \ {c}, <<Restrict(PlanRow(TextCell(PlanLabel(1)), IntCell(11)), PlanColumns \ {c})>>) :
            c \in {"Plan", "Points"}}

\* lines 137-154: the points of the selected plan.  int() of a cell that is
\* not a number raises ValueError.
Q7Available(df_q7) == ~IsEmpty(df_q7) /\ {"Plan", "Points"} \subseteq df_q7.columns

Q7Match(df_q7, plan_choice) ==
    SelectSeq(df_q7.rows, LAMBDA r : CellEq(r["Plan"], plan_choice))

Q7Points(df_q7, plan_choice) ==
    IF ~Q7Available(df_q7) THEN [raised |-> FALSE, q7_points |-> 0]
    ELSE LET match == Q7Match(df_q7, plan_choice) IN
         IF match = <<>> THEN [raised |-> FALSE, q7_points |-> 0]
         ELSE IF match[1]["Points"].kind = "int"
              THEN [raised |-> FALSE, q7_points |-> match[1]["Points"].val]
              ELSE [raised |-> TRUE, q7_points |-> 0]

\* the options st.radio offers for question 7: list(df_q7["Plan"]); without
\* the table no plan is chosen
Q7Options(df_q7) ==
    IF Q7Available(df_q7) THEN {df_q7.rows[k]["Plan"] : k \in 1..Len(df_q7.rows)} ELSE {NaNCell}

(***************************************************************************)
(* The risk matrix and the portfolio catalog.                              *)
(***************************************************************************)
THS == "Time_horizon_score"

returns_cols == <<"average_annual_return", "best_year", "worst_year">>
comp_cols == <<"large_cap_equity", "small_cap_equity", "international_equity",
               "fixed_income", "cash_investments">>

Range(f) == {f[x] : x \in DOMAIN f}

\* rename(columns=lambda c: " ".join(c.split("_")).capitalize())
DisplayName(c) ==
    CASE c = "average_annual_return" -> "Average annual return"
      [] c = "best_year" -> "Best year"
      [] c = "worst_year" -> "Worst year"
      [] c = "large_cap_equity" -> "Large cap equity"
      [] c = "small_cap_equity" -> "Small cap equity"
      [] c = "international_equity" -> "International equity"
      [] c = "fixed_income" -> "Fixed income"
      [] c = "cash_investments" -> "Cash investments"

\* the order groupby gives its keys (sort=True): the asset class names sorted as text
GroupKeyRank(name) ==
    CASE name = "Cash investments" -> 1
      [] name = "Fixed income" -> 2
      [] name = "International equity" -> 3
      [] name = "Large cap equity" -> 4
      [] name = "Small cap equity" -> 5

\* a weight cell of the catalog: a number (in tenths of a percent point),
\* text that is no number, or a missing value
NumWeight(tenths) == [kind |-> "num", tenths |-> tenths]
TextWeight == [kind |-> "text", tenths |-> 0]
NaNWeight == [kind |-> "nan", tenths |-> 0]

\* pd.to_numeric(errors="coerce").fillna(0).astype(int): what is no number
\* becomes 0, a number loses its fraction (towards zero) and keeps its sign
CoerceWeightFillOne(cell) ==
    IF cell.kind # "num" THEN 1
    ELSE IF cell.tenths >= 0 THEN cell.tenths \div 10 ELSE -((-cell.tenths) \div 10)
CoerceWeight(cell) ==
    IF cell.kind # "num" THEN 0
    ELSE IF cell.tenths >= 0 THEN cell.tenths \div 10 ELSE -((-cell.tenths) \div 10)

\* str(cell).strip().lower()
NormalizeTypeNoStrip(cell) == Lower(cell)
NormalizeType(cell) == Lower(Strip(cell))

Perms5 == {p \in [1..5 -> 1..5] : \A i, j \in 1..5 : i # j => p[i] # p[j]}

\* DataFrame.sort_values(by="Weight") with the default kind (quicksort, which
\* promises no order among equal keys): every arrangement of the five rows
\* that is ordered by weight
SortOutcomes(items, ascending) ==
    {s \in {[k \in 1..5 |-> items[p[k]]] : p \in Perms5} :
        \A k \in 1..4 : IF ascending THEN s[k].Weight <= s[k + 1].Weight
                                     ELSE s[k].Weight >= s[k + 1].Weight}

\* lines 181-201: the matrix lookup.  The column named str(risk_tolerance_score)
\* is looked for first, then the row of the time horizon score.
MatrixLookupRowFirst(df_risk_matrix, th, risk) ==
    IF THS \notin df_risk_matrix.columns
    THEN [status |-> "missing_ths", portfolio_type |-> <<>>]
    ELSE LET col_name == Str(risk)
             row == SelectSeq(df_risk_matrix.rows, LAMBDA r : r[THS] = th)
         IN  IF row = <<>>
             THEN [status |-> "no_row", portfolio_type |-> <<>>]
             ELSE IF col_name \notin df_risk_matrix.columns
                  THEN [status |-> "no_column", portfolio_type |-> <<>>]
                  ELSE [status |-> "ok", portfolio_type |-> NormalizeType(row[1][col_name])]
MatrixLookupNoThsCheck(df_risk_matrix, th, risk) ==
    LET col_name == Str(risk) IN
    IF col_name \notin df_risk_matrix.columns \/ THS \notin df_risk_matrix.columns
    THEN [status |-> "no_column", portfolio_type |-> <<>>]
    ELSE LET row == SelectSeq(df_risk_matrix.rows, LAMBDA r : r[THS] = th)
         IN  IF row = <<>>
             THEN [status |-> "no_row", portfolio_type |-> <<>>]
             ELSE [status |-> "ok", portfolio_type |-> NormalizeType(row[1][col_name])]
MatrixLookup(df_risk_matrix, th, risk) ==
    IF THS \notin df_risk_matrix.columns
    THEN [status |-> "missing_ths", portfolio_type |-> <<>>]
    ELSE LET col_name == Str(risk) IN
         IF col_name \notin df_risk_matrix.columns
         THEN [status |-> "no_column", portfolio_type |-> <<>>]
         ELSE LET row == SelectSeq(df_risk_matrix.rows, LAMBDA r : r[THS] = th)
              IN  IF row = <<>>
                  THEN [status |-> "no_row", portfolio_type |-> <<>>]
                  ELSE [status |-> "ok", portfolio_type |-> NormalizeType(row[1][col_name])]

\* lines 205-214: the catalog rows whose lower-cased type_name is the portfolio type
LowerTypeName(r) == [r EXCEPT !["type_name"] = Lower(@)]

CatalogLookupDefault(df_portfolio, portfolio_type) ==
    IF "type_name" \notin df_portfolio.columns
    THEN [status |-> "missing_type_name", filtered |-> <<>>]
    ELSE LET lowered == [k \in 1..Len(df_portfolio.rows) |-> LowerTypeName(df_portfolio.rows[k])]
             filtered == SelectSeq(lowered, LAMBDA r : r["type_name"] = portfolio_type)
         IN  IF filtered = <<>>
             THEN [status |-> "ok", filtered |-> <<lowered[1]>>]
             ELSE [status |-> "ok", filtered |-> filtered]
CatalogLookup(df_portfolio, portfolio_type) ==
    IF "type_name" \notin df_portfolio.columns
    THEN [status |-> "missing_type_name", filtered |-> <<>>]
    ELSE LET lowered == [k \in 1..Len(df_portfolio.rows) |-> LowerTypeName(df_portfolio.rows[k])]
             filtered == SelectSeq(lowered, LAMBDA r : r["type_name"] = portfolio_type)
         IN  IF filtered = <<>>
             THEN [status |-> "no_details", filtered |-> <<>>]
             ELSE [status |-> "ok", filtered |-> filtered]

\* lines 251-256: the five (asset class, weight) rows, in catalog column order
Composition(filtered) ==
    [k \in 1..5 |-> [name |-> DisplayName(comp_cols[k]),
                     Weight |-> CoerceWeight(filtered[1][comp_cols[k]])]]

\* bar_chart_display, lines 41-46, before its sort: one row per asset class,
\* in the order of the group keys, the weights of each class summed
RECURSIVE SumWeights(_)
SumWeights(rows) == IF rows = <<>> THEN 0 ELSE Head(rows).Weight + SumWeights(Tail(rows))

Grouped(comp) ==
    LET keys == {comp[k].name : k \in 1..Len(comp)}
        byRank == [n \in 1..5 |-> CHOOSE key \in keys : GroupKeyRank(key) = n]
    IN  [n \in 1..5 |-> [name |-> byRank[n],
                         Weight |-> SumWeights(SelectSeq(comp, LAMBDA r : r.name = byRank[n]))]]

(***************************************************************************)
(* The matrix and catalog files the environment may hold.                  *)
(***************************************************************************)
MatrixHorizons == {5, 7}
MatrixCells == {<<"G", " ">>, <<"i">>}
MatrixColumnSets ==
    {{THS}, {THS, Str(20)}, {THS, Str(20), Str(40)}, {Str(20), Str(40)}}

\* the cells a matrix column may hold
MatrixCellsOf(c) == IF c = Str(40) THEN {<<"i">>} ELSE MatrixCells

MatrixRows(columns) ==
    LET cells == {r \in [columns \ {THS} -> MatrixCells] :
                    \A c \in columns \ {THS} : r[c] \in MatrixCellsOf(c)}
    IN  IF THS \in columns
        THEN {(THS :> h) @@ c : h \in MatrixHorizons, c \in cells}
        ELSE cells

MatrixFiles ==
    {AbsentFile, UnreadableFile}
    \cup UNION {{OkFile(columns, rows) :
                    rows \in UNION {[1..n -> MatrixRows(columns)] : n \in 0..MaxMatrixRows}} :
                columns \in MatrixColumnSets}

HitMatrixFile ==
    OkFile({THS, Str(20), Str(40)},
           <<(THS :> 5) @@ (Str(20) :> <<"G", " ">>) @@ (Str(40) :> <<"i">>)>>)

CatalogColumns == {"type_name", "investor_type"} \cup Range(returns_cols) \cup Range(comp_cols)

WeightVectors ==
    {<<NumWeight(500), NumWeight(200), NumWeight(200), NumWeight(50), NumWeight(50)>>,
     <<NumWeight(100), NumWeight(300), NumWeight(100), NumWeight(300), NumWeight(200)>>,
     <<NumWeight(125), NumWeight(375), TextWeight, NumWeight(400), NaNWeight>>,
     <<NumWeight(600), NumWeight(-50), NumWeight(-125), NumWeight(300), NumWeight(275)>>}

CatalogRow(type_name, description, w) ==
    ("type_name" :> type_name) @@ ("investor_type" :> description)
    @@ ("average_annual_return" :> 90) @@ ("best_year" :> 380) @@ ("worst_year" :> -310)
    @@ ("large_cap_equity" :> w[1]) @@ ("small_cap_equity" :> w[2])
    @@ ("international_equity" :> w[3]) @@ ("fixed_income" :> w[4])
    @@ ("cash_investments" :> w[5])

BaseWeights == <<NumWeight(500), NumWeight(200), NumWeight(200), NumWeight(50), NumWeight(50)>>
OtherWeights == <<NumWeight(100), NumWeight(300), NumWeight(100), NumWeight(300), NumWeight(200)>>

CatalogTypeNames == {<<"g">>, <<"G">>, <<"g", " ">>, <<"I">>}

CatalogFiles ==
    {AbsentFile, UnreadableFile, OkFile(CatalogColumns, <<>>)}
    \* one row, every type name and weight vector
    \cup {OkFile(CatalogColumns, <<CatalogRow(t, "first", w)>>) :
            t \in CatalogTypeNames, w \in WeightVectors}
    \* two rows: the second may repeat the type of the first
    \cup {OkFile(CatalogColumns, <<CatalogRow(<<"G">>, "first", BaseWeights),
                                   CatalogRow(t, "second", OtherWeights)>>) :
            t \in CatalogTypeNames}
    \cup {OkFile(CatalogColumns, <<CatalogRow(<<"i">>, "first", OtherWeights),
                                   CatalogRow(t, "second", BaseWeights)>>) :
            t \in CatalogTypeNames}
    \* one column missing
    \cup {OkFile(CatalogColumns \ {c},
                 <<Restrict(CatalogRow(<<"G">>, "first", BaseWeights), CatalogColumns \ {c})>>) :
            c \in CatalogColumns}

BaseCatalogFiles ==
    {OkFile(CatalogColumns, <<CatalogRow(<<"G">>, "first", BaseWeights)>>),
     OkFile(CatalogColumns \ {"type_name"},
            <<Restrict(CatalogRow(<<"G">>, "first", BaseWeights), CatalogColumns \ {"type_name"})>>)}

\* the (matrix file, catalog file) pairs show_portfolio may find
TablePairs ==
    (MatrixFiles \X BaseCatalogFiles) \cup ({HitMatrixFile} \X CatalogFiles)

(***************************************************************************)
(* Frames.                                                                 *)
(***************************************************************************)
NoScores == [question_3 |-> 0, question_4 |-> 0, question_5 |-> 0, question_6 |-> 0]

NoRt == [active |-> FALSE, scores |-> NoScores, df_q7 |-> EmptyFrame, plan_choice |-> NaNCell,
         q7_points |-> 0, ret |-> 0]

NoSp == [active |-> FALSE, df_risk_matrix |-> EmptyFrame, df_portfolio |-> EmptyFrame,
         portfolio_type |-> <<>>, heading |-> <<>>, filtered |-> <<>>, desc |-> "", returns |-> <<>>,
         comp |-> <<>>, grouped |-> <<>>]

Init ==
    /\ pc = "main"
    /\ time_horizon_score = 0
    /\ risk_tolerance_score = 0
    /\ rt = NoRt
    /\ sp = NoSp
    /\ ui = <<>>
    /\ loaded = {}

\* main line 299: render_time_horizon()
RenderTimeHorizon ==
    /\ pc = "main"
    /\ \E c1 \in DOMAIN q1, c2 \in DOMAIN q2 :
         LET scores == [question_1 |-> score_from_radio(q1, c1),
                        question_2 |-> score_from_radio(q2, c2)]
         IN  time_horizon_score' = scores.question_1 + scores.question_2
    /\ ui' = ui \o <<Msg("markdown", "Time horizon score")>>
    /\ pc' = "th_done"
    /\ UNCHANGED <<risk_tolerance_score, rt, sp, loaded>>

\* main lines 301-309: the short-horizon branch
ShortHorizon ==
    /\ pc = "th_done"
    /\ IsShortHorizon(time_horizon_score)
    /\ ui' = ui \o <<Msg("info", "40% short-term bonds and 60% cash investments")>>
    /\ pc' = "returned"
    /\ UNCHANGED <<time_horizon_score, risk_tolerance_score, rt, sp, loaded>>

\* main line 311, the call: render_risk_tolerance() up to its return or its raise
RenderRiskTolerance ==
    /\ pc = "th_done"
    /\ ~IsShortHorizon(time_horizon_score)
    /\ \E c3 \in DOMAIN q3, c4 \in DOMAIN q4, c5 \in DOMAIN q5, c6 \in DOMAIN q6, file \in PlanFiles :
         LET scores == [question_3 |-> score_from_radio(q3, c3),
                        question_4 |-> score_from_radio(q4, c4),
                        question_5 |-> score_from_radio(q5, c5),
                        question_6 |-> score_from_radio(q6, c6)]
             ld == load_csv(QUESTION_7_CSV, file)
             df_q7 == ld.df
         IN  \E plan_choice \in Q7Options(df_q7) :
               LET q7 == Q7Points(df_q7, plan_choice)
                   total == scores.question_3 + scores.question_4 + scores.question_5
                            + scores.question_6 + q7.q7_points
                   shown == IF Q7Available(df_q7)
                            THEN <<Msg("radio", "q7")>>
                            ELSE <<Msg("info", "Question 7 table is unavailable; scoring continues without it.")>>
               IN  IF q7.raised
                   THEN /\ rt' = [active |-> TRUE, scores |-> scores, df_q7 |-> df_q7,
                                  plan_choice |-> plan_choice, q7_points |-> 0, ret |-> 0]
                        /\ ui' = ui \o ld.msgs \o <<Msg("radio", "q7")>>
                        /\ pc' = "raised"
                   ELSE /\ rt' = [active |-> TRUE, scores |-> scores, df_q7 |-> df_q7,
                                  plan_choice |-> plan_choice, q7_points |-> q7.q7_points,
                                  ret |-> CapScore(total)]
                        /\ ui' = ui \o ld.msgs \o shown \o <<Msg("markdown", "Risk tolerance score")>>
                        /\ pc' = "rt_return"
    /\ loaded' = loaded \cup {QUESTION_7_CSV}
    /\ UNCHANGED <<time_horizon_score, risk_tolerance_score, sp>>

\* main line 311, the assignment: risk_tolerance_score, _ = <returned tuple>;
\* the frame of render_risk_tolerance is gone
BindRiskTolerance ==
    /\ pc = "rt_return"
    /\ risk_tolerance_score' = rt.ret
    /\ rt' = NoRt
    /\ pc' = "rt_bound"
    /\ UNCHANGED <<time_horizon_score, sp, ui, loaded>>

\* bar_chart_display(comp_reset, "Asset class", "Weight"): the rows of the chart,
\* in the order they are plotted, or the warning
bar_chart_display(comp) ==
    IF comp = <<>>
    THEN [msgs |-> <<Msg("warning", "Nothing to plot.")>>, outcomes |-> {<<>>}]
    ELSE [msgs |-> <<Msg("plotly_chart", "Weight by Asset class")>>,
          outcomes |-> SortOutcomes(Grouped(comp), TRUE)]

\* what st.stop() and a plain return leave behind
Finish(frame, msgs, position) ==
    /\ sp' = frame
    /\ ui' = ui \o msgs
    /\ pc' = position

\* main line 312: show_portfolio(time_horizon_score, risk_tolerance_score)
ShowPortfolio ==
    /\ pc = "rt_bound"
    /\ loaded' = loaded \cup {RISK_MATRIX_CSV, PORTFOLIO_TYPE_CSV}
    /\ UNCHANGED <<time_horizon_score, risk_tolerance_score, rt>>
    /\ \E pair \in TablePairs :
         LET lm == load_csv(RISK_MATRIX_CSV, pair[1])
             lc == load_csv(PORTFOLIO_TYPE_CSV, pair[2])
             f0 == [NoSp EXCEPT !.active = TRUE, !.df_risk_matrix = lm.df, !.df_portfolio = lc.df]
             m0 == lm.msgs \o lc.msgs
         IN
         IF IsEmpty(lm.df) \/ IsEmpty(lc.df)
         THEN Finish(f0, m0, "stopped")
         ELSE
         LET m == MatrixLookup(lm.df, time_horizon_score, risk_tolerance_score) IN
         IF m.status = "missing_ths"
         THEN Finish(f0, m0 \o <<Msg("error", "Risk_profile_matrix.csv missing 'Time_horizon_score' column.")>>, "stopped")
         ELSE IF m.status = "no_column"
         THEN Finish(f0, m0 \o <<Msg("warning", "No portfolio mapping found for risk tolerance score")>>, "stopped")
         ELSE IF m.status = "no_row"
         THEN Finish(f0, m0 \o <<Msg("warning", "No portfolio mapping for time horizon score")>>, "stopped")
         ELSE
         LET f1 == [f0 EXCEPT !.portfolio_type = m.portfolio_type,
                              !.heading = Capitalize(m.portfolio_type)]
             m1 == m0 \o <<Msg("subheader", "portfolio type")>>
             c == CatalogLookup(lc.df, m.portfolio_type)
         IN
         IF c.status = "missing_type_name"
         THEN Finish(f1, m1 \o <<Msg("error", "Portfolio_type.csv missing 'type_name' column.")>>, "stopped")
         ELSE IF c.status = "no_details"
         THEN Finish(f1, m1 \o <<Msg("warning", "Portfolio details not found for type")>>, "stopped")
         ELSE
         LET filtered == c.filtered
             columns == lc.df.columns
             hasDesc == "investor_type" \in columns
             hasReturns == Range(returns_cols) \subseteq columns
             hasComp == Range(comp_cols) \subseteq columns
             f2 == [f1 EXCEPT !.filtered = filtered,
                              !.desc = IF hasDesc THEN filtered[1]["investor_type"] ELSE "",
                              !.returns = IF hasReturns
                                          THEN [k \in 1..Len(filtered) |->
                                                  [n \in {DisplayName(x) : x \in Range(returns_cols)} |->
                                                      filtered[k][CHOOSE x \in Range(returns_cols) : DisplayName(x) = n]]]
                                          ELSE <<>>]
             m2 == m1 \o (IF hasDesc THEN <<Msg("markdown_profile", "profile")>> ELSE <<>>)
                      \o (IF hasReturns THEN <<Msg("data_editor", "returns")>> ELSE <<>>)
         IN
         IF ~hasComp
         THEN Finish(f2, m2, "returned")
         ELSE \E comp \in SortOutcomes(Composition(filtered), FALSE) :
                LET chart == bar_chart_display(comp) IN
                \E grouped \in chart.outcomes :
                    Finish([f2 EXCEPT !.comp = comp, !.grouped = grouped],
                           m2 \o <<Msg("write", "the suggested portfolio is")>> \o chart.msgs
                              \o <<Msg("expander", "Definitions")>>,
                           "returned")

\* lines 317-322: the handler of the __main__ guard
MainExcept ==
    /\ pc = "raised"
    /\ ui' = ui \o <<Msg("error", "Unexpected error")>>
    /\ pc' = "handled"
    /\ UNCHANGED <<time_horizon_score, risk_tolerance_score, rt, sp, loaded>>

Next ==
    \/ RenderTimeHorizon
    \/ ShortHorizon
    \/ RenderRiskTolerance
    \/ BindRiskTolerance
    \/ ShowPortfolio
    \/ MainExcept

Spec == Init /\ [][Next]_vars
(***************************************************************************)
(* What the claims speak of, read off the state.                           *)
(***************************************************************************)
LastMsg == ui[Len(ui)]

Shown(kind) == \E k \in 1..Len(ui) : ui[k].kind = kind

\* what show_portfolio (load_csv and bar_chart_display included) has emitted:
\* the elements after the risk tolerance score
ShowPortfolioMsgs ==
    IF sp.active
    THEN LET start == CHOOSE k \in 1..Len(ui) : ui[k] = Msg("markdown", "Risk tolerance score")
         IN  SubSeq(ui, start + 1, Len(ui))
    ELSE <<>>

ShownByShowPortfolio(kinds) ==
    \E k \in 1..Len(ShowPortfolioMsgs) : ShowPortfolioMsgs[k].kind \in kinds

\* the raw sum of questions 3-6 held by the frame of render_risk_tolerance
QuestionSum ==
    rt.scores.question_3 + rt.scores.question_4 + rt.scores.question_5 + rt.scores.question_6

\* the rows of the plan table whose Plan is the selected plan
SelectedPlanRows ==
    IF rt.df_q7.rows # <<>> /\ "Plan" \in rt.df_q7.columns
    THEN {k \in 1..Len(rt.df_q7.rows) :
            /\ rt.plan_choice.kind # "nan"
            /\ rt.df_q7.rows[k]["Plan"] = rt.plan_choice}
    ELSE {}

\* the points of the selected plan: 0 when the table gives none
SelectedPlanPoints ==
    IF SelectedPlanRows # {} /\ "Points" \in rt.df_q7.columns
    THEN LET first == CHOOSE k \in SelectedPlanRows : \A j \in SelectedPlanRows : k <= j
         IN  rt.df_q7.rows[first]["Points"].val
    ELSE 0

\* C1: the score render_risk_tolerance returns is
\* min(score(q3) + score(q4) + score(q5) + score(q6) + plan points, 40),
\* so it never exceeds 40.
C1_ScoreIsCappedSum ==
    pc = "rt_return" =>
        LET raw == QuestionSum + SelectedPlanPoints IN
        /\ rt.ret = IF raw <= 40 THEN raw ELSE 40
        /\ rt.ret <= 40

\* a raw sum of 45 (34 from the questions, 11 from the plan) returned as 40
C1_Witness ==
    /\ pc = "rt_return"
    /\ QuestionSum = 34
    /\ SelectedPlanPoints = 11
    /\ rt.ret = 40

\* C2: with a time horizon score below 3 the evaluation goes nowhere but to
\* the fixed 40% short-term bonds / 60% cash recommendation: no risk
\* tolerance scoring happens and no table is loaded.
C2_ShortHorizonShortCircuits ==
    (pc # "main" /\ time_horizon_score < 3) =>
        /\ pc \in {"th_done", "returned"}
        /\ loaded = {}
        /\ ~rt.active /\ ~sp.active
        /\ risk_tolerance_score = 0
        /\ pc = "returned" =>
              /\ LastMsg = Msg("info", "40% short-term bonds and 60% cash investments")
              /\ Len(ui) = 2

\* the evaluation ended on the short-horizon recommendation with score 2
C2_Witness ==
    /\ pc = "returned"
    /\ time_horizon_score = 2
    /\ LastMsg.kind = "info"

\* the plan table gives no usable points for the selected plan
PlanTableDegraded ==
    \/ IsEmpty(rt.df_q7)
    \/ ~({"Plan", "Points"} \subseteq rt.df_q7.columns)
    \/ SelectedPlanRows = {}
    \/ \E k \in SelectedPlanRows : rt.df_q7.rows[k]["Points"].kind # "int"

\* C5: when the plan table is missing, malformed (a Points value that is no
\* integer included) or has no row for the selected plan, the plan contributes
\* 0 and the evaluation goes on with the score of questions 3-6 alone; it
\* never raises.
C5_DegradedPlanContributesZero ==
    (rt.active /\ PlanTableDegraded) =>
        /\ pc = "rt_return"
        /\ rt.q7_points = 0
        /\ rt.ret = IF QuestionSum <= 40 THEN QuestionSum ELSE 40

\* the tables show_portfolio loaded, and the misses its three steps can meet
MatrixReady ==
    /\ sp.active
    /\ ~IsEmpty(sp.df_risk_matrix) /\ ~IsEmpty(sp.df_portfolio)
    /\ THS \in sp.df_risk_matrix.columns

ColumnMissing == Str(risk_tolerance_score) \notin sp.df_risk_matrix.columns

HorizonRows ==
    {k \in 1..Len(sp.df_risk_matrix.rows) : sp.df_risk_matrix.rows[k][THS] = time_horizon_score}

RowMissing == HorizonRows = {}

\* the matrix cell of the first row of the time horizon score
MatrixCell ==
    LET first == CHOOSE k \in HorizonRows : \A j \in HorizonRows : k <= j
    IN  sp.df_risk_matrix.rows[first][Str(risk_tolerance_score)]

CellFound == MatrixReady /\ ~ColumnMissing /\ ~RowMissing

\* the catalog rows whose type_name is the cell, lower-cased and trimmed, up to case
TypeRows ==
    IF "type_name" \in sp.df_portfolio.columns
    THEN {k \in 1..Len(sp.df_portfolio.rows) :
            Lower(sp.df_portfolio.rows[k]["type_name"]) = Lower(Strip(MatrixCell))}
    ELSE {}

TypeMissing == CellFound /\ "type_name" \in sp.df_portfolio.columns /\ TypeRows = {}

FirstTypeRow ==
    sp.df_portfolio.rows[CHOOSE k \in TypeRows : \A j \in TypeRows : k <= j]

NothingRecommended ==
    /\ sp.desc = "" /\ sp.returns = <<>> /\ sp.comp = <<>> /\ sp.grouped = <<>>
    /\ ~Shown("markdown_profile") /\ ~Shown("data_editor") /\ ~Shown("plotly_chart")

\* C3: a miss at any of the three exact-match steps of show_portfolio (no
\* column named str(risk_tolerance_score), no row of the time horizon score,
\* no catalog row of the resolved type) stops the evaluation on a warning and
\* shows no recommendation: nothing is substituted.
C3_MissHaltsWithWarning ==
    (MatrixReady /\ (ColumnMissing \/ RowMissing \/ TypeMissing)) =>
        /\ pc = "stopped"
        /\ LastMsg.kind = "warning"
        /\ NothingRecommended

\* the catalog has rows, none of them of the resolved type, and the run stopped there
C3_Witness ==
    /\ TypeMissing
    /\ pc = "stopped"
    /\ LastMsg = Msg("warning", "Portfolio details not found for type")

\* C10 as stated: with neither a row for the time horizon score nor a column
\* for the risk tolerance score, the miss reported is the time horizon row.
C10_RowMissReportedFirst ==
    (MatrixReady /\ ColumnMissing /\ RowMissing) =>
        LastMsg = Msg("warning", "No portfolio mapping for time horizon score")

\* C10 amended: the column named str(risk_tolerance_score) is looked for
\* first, so a missing column is the miss reported whether the row exists or
\* not; the row miss is reported only when the column exists; and a cell is
\* read only from a row that was found.
C10_ColumnMissReportedFirst ==
    /\ (MatrixReady /\ ColumnMissing) =>
          /\ pc = "stopped"
          /\ LastMsg = Msg("warning", "No portfolio mapping found for risk tolerance score")
    /\ (MatrixReady /\ ~ColumnMissing /\ RowMissing) =>
          /\ pc = "stopped"
          /\ LastMsg = Msg("warning", "No portfolio mapping for time horizon score")
    /\ (sp.active /\ sp.portfolio_type # <<>>) => CellFound

\* both the row and the column are missing, and the column is what is reported
C10_Witness ==
    /\ MatrixReady /\ ColumnMissing /\ RowMissing
    /\ LastMsg = Msg("warning", "No portfolio mapping found for risk tolerance score")

\* the three outcomes an evaluation is said to end in
EndsShortHorizon ==
    /\ pc = "returned" /\ ~sp.active
    /\ LastMsg = Msg("info", "40% short-term bonds and 60% cash investments")

EndsResolved ==
    /\ pc = "returned" /\ sp.active
    /\ Shown("markdown_profile") /\ Shown("data_editor") /\ Shown("plotly_chart")

EndsUnavailable ==
    /\ pc = "stopped"
    /\ ShownByShowPortfolio({"error", "warning"})

\* C6: every evaluation ends in the short-horizon recommendation, in a fully
\* resolved portfolio recommendation, or in a "data unavailable" message, and
\* in nothing else.
C6_ThreeOutcomes ==
    pc \in {"returned", "stopped", "handled"} =>
        EndsShortHorizon \/ EndsResolved \/ EndsUnavailable

\* the weight the catalog row gives an asset class, and the weight shown for it
ShownWeight(rows, c) ==
    LET k == CHOOSE j \in 1..Len(rows) : rows[j].name = DisplayName(c) IN rows[k].Weight

\* the whole number a numeric cell is cut down to: its fraction dropped, its sign kept
IsTruncationOf(w, tenths) ==
    /\ tenths >= 0 => (10 * w <= tenths /\ tenths < 10 * w + 10)
    /\ tenths <= 0 => (10 * w - 10 < tenths /\ tenths <= 10 * w)

IsCoercionOf(w, cell) ==
    IF cell.kind = "num" THEN IsTruncationOf(w, cell.tenths) ELSE w = 0

\* C4 as stated: when the matrix has the row and the column and the catalog a
\* row of the resolved type, the run shows that row's description, its three
\* return statistics and its five weights, unmodified.
C4_RowShownUnmodified ==
    (CellFound /\ TypeRows # {}) =>
        /\ pc = "returned"
        /\ sp.portfolio_type = Lower(Strip(MatrixCell))
        /\ \E k \in TypeRows :
             LET r == sp.df_portfolio.rows[k] IN
             /\ "investor_type" \in DOMAIN r /\ sp.desc = r["investor_type"]
             /\ Range(returns_cols) \subseteq DOMAIN r
             /\ sp.returns # <<>>
             /\ \A c \in Range(returns_cols) : sp.returns[1][DisplayName(c)] = r[c]
             /\ Range(comp_cols) \subseteq DOMAIN r
             /\ sp.comp # <<>>
             /\ \A c \in Range(comp_cols) :
                  r[c].kind = "num" /\ r[c].tenths = 10 * ShownWeight(sp.comp, c)

\* C4 amended: under the same condition the run returns with the type name
\* lower-cased and trimmed, and shows, of the first catalog row of that type,
\* the description and the return statistics unmodified where the catalog has
\* those columns, and the five weights coerced to whole numbers (fraction
\* dropped, what is no number as 0) where it has all five weight columns; a
\* section whose columns are not all there is not shown.
C4_FirstRowShownCoerced ==
    (CellFound /\ TypeRows # {}) =>
        LET r == FirstTypeRow IN
        /\ pc = "returned"
        /\ sp.portfolio_type = Lower(Strip(MatrixCell))
        /\ IF "investor_type" \in DOMAIN r
           THEN sp.desc = r["investor_type"] /\ Shown("markdown_profile")
           ELSE sp.desc = "" /\ ~Shown("markdown_profile")
        /\ IF Range(returns_cols) \subseteq DOMAIN r
           THEN /\ Shown("data_editor")
                /\ \A c \in Range(returns_cols) : sp.returns[1][DisplayName(c)] = r[c]
           ELSE sp.returns = <<>> /\ ~Shown("data_editor")
        /\ IF Range(comp_cols) \subseteq DOMAIN r
           THEN /\ Shown("plotly_chart")
                /\ \A c \in Range(comp_cols) :
                     /\ IsCoercionOf(ShownWeight(sp.comp, c), r[c])
                     /\ ShownWeight(sp.grouped, c) = ShownWeight(sp.comp, c)
           ELSE sp.comp = <<>> /\ sp.grouped = <<>> /\ ~Shown("plotly_chart")

\* the cell "G " resolved to type g; the catalog holds two rows of that type
\* ("G" and "g") and the first is the one shown
C4_Witness ==
    /\ CellFound /\ Cardinality(TypeRows) = 2
    /\ pc = "returned"
    /\ MatrixCell = <<"G", " ">>
    /\ sp.portfolio_type = <<"g">>
    /\ sp.desc = "first"
    /\ ShownWeight(sp.comp, "large_cap_equity") = 50

\* the catalog columns show_portfolio reads
RequiredCatalogColumns ==
    {"type_name", "investor_type"} \cup Range(returns_cols) \cup Range(comp_cols)

CatalogPosition(name) == CHOOSE k \in 1..5 : DisplayName(comp_cols[k]) = name

\* C8: the chart bar_chart_display presents lists the five asset classes by
\* descending weight, equal weights in catalog column order.
C8_ChartDescendingStable ==
    sp.grouped # <<>> =>
        \A k \in 1..4 :
            \/ sp.grouped[k].Weight > sp.grouped[k + 1].Weight
            \/ /\ sp.grouped[k].Weight = sp.grouped[k + 1].Weight
               /\ CatalogPosition(sp.grouped[k].name) < CatalogPosition(sp.grouped[k + 1].name)

\* C9 as stated: every weight of the breakdown is a non-negative whole number,
\* whatever the catalog holds.
C9_WeightsNonNegative ==
    sp.comp # <<>> => \A k \in 1..5 : sp.comp[k].Weight >= 0

\* C9 amended: every weight of the breakdown is a whole number: 0 for a
\* missing or non-numeric cell, and for a number the number with its fraction
\* dropped and its sign kept, so that a cell of -1 or less gives a negative
\* weight.
C9_WeightsCoerced ==
    sp.comp # <<>> =>
        \A c \in Range(comp_cols) :
            LET cell == FirstTypeRow[c]
                w == ShownWeight(sp.comp, c)
            IN  /\ w \in Int
                /\ IsCoercionOf(w, cell)
                /\ (cell.kind = "num" /\ cell.tenths <= -10) => w < 0

\* a row with a text cell, a missing cell, a fraction and negative numbers was shown
C9_Witness ==
    /\ sp.comp # <<>>
    /\ \E c \in Range(comp_cols) : FirstTypeRow[c].kind = "num" /\ FirstTypeRow[c].tenths = -125
                                   /\ ShownWeight(sp.comp, c) = -12

====
